---------------------------- MODULE Spec2Model ----------------------------
(***************************************************************************)
(* A model of the indexing core declared in src/src/clang_tu.h: the Id     *)
(* algebra, Reference ordering, NameMixin, the Reflect field lists of the  *)
(* Def records, the IndexFile with its IdCache and base/derived edges, the *)
(* crash-recovery shim and the Parse facade with the file-consumer         *)
(* arbiter.  Each part has its own actions and its own specification; the  *)
(* variables of the other parts stay at their initial values.              *)
(***************************************************************************)
EXTENDS Integers, Sequences, FiniteSets, TLC

VARIABLES
    \* Id<T>
    id_slot,      \* the Id objects under test: slot -> [kind, id]
    id_origin,    \* ghost: the integer each slot's raw value was built from
    id_cmp,       \* the last comparison or conversion (operands, results), or NoCmp
    \* Reference lists of one entity
    ref_decls,    \* the entity's declarations
    ref_uses,     \* the entity's uses
    ref_last,     \* ghost: the last insertion [ref, dup]
    \* NameMixin
    name_rec,     \* the record Name() is called on
    name_out,     \* what Name(false) and Name(true) returned
    \* Reflect of the Def records
    refl_pc,      \* "idle", "picked", "written", "read"
    refl_kind,    \* "TypeDef", "FuncDef", "VarDef"
    refl_rec,     \* the record written
    refl_stream,  \* the values the Writer emitted, in order
    refl_back,    \* the record the Reader filled
    \* one IndexFile
    ix_ent,       \* kind -> the entity vector (types, funcs, vars)
    ix_u2i,       \* kind -> id_cache.usr_to_*_id
    ix_i2u,       \* kind -> id_cache.*_id_to_usr
    ix_last,      \* ghost: the last To*Id call [kind, usr, ret, before]
    ix_events,    \* number of declaration events with bases delivered
    \* the process, its workers and the arbiter
    env,          \* value of CCLS_CRASH_RECOVERY, or Unset
    proc,         \* "running", or "crashed" after an unshielded fault
    marked,       \* the arbiter: the paths some worker has claimed
    pc,           \* worker -> "idle", "parsing", "done"
    root,         \* worker -> the translation unit's root file
    pos,          \* worker -> number of events of its stream delivered
    local,        \* worker -> path -> "owned" / "dropped" (the parse's working set)
    result,       \* worker -> the paths of the returned IndexFiles
    shielded,     \* worker -> the closure runs inside the crash-recovery context
    fn_calls,     \* worker -> number of times RunSafely invoked the closure
    run_ret,      \* worker -> what RunSafely returned
    faulted       \* worker -> a fatal fault hit the closure

id_vars == <<id_slot, id_origin, id_cmp>>
ref_vars == <<ref_decls, ref_uses, ref_last>>
name_vars == <<name_rec, name_out>>
refl_vars == <<refl_pc, refl_kind, refl_rec, refl_stream, refl_back>>
ix_vars == <<ix_ent, ix_u2i, ix_i2u, ix_last, ix_events>>
parse_vars == <<env, proc, marked, pc, root, pos, local, result, shielded,
                fn_calls, run_ret, faulted>>

vars == <<id_vars, ref_vars, name_vars, refl_vars, ix_vars, parse_vars>>

not_id == <<ref_vars, name_vars, refl_vars, ix_vars, parse_vars>>
not_ref == <<id_vars, name_vars, refl_vars, ix_vars, parse_vars>>
not_name == <<id_vars, ref_vars, refl_vars, ix_vars, parse_vars>>
not_refl == <<id_vars, ref_vars, name_vars, ix_vars, parse_vars>>
not_ix == <<id_vars, ref_vars, name_vars, refl_vars, parse_vars>>
not_parse == <<id_vars, ref_vars, name_vars, refl_vars, ix_vars>>

(***************************************************************************)
(* Id<T> (clang_tu.h:77-105)                                               *)
(***************************************************************************)
\* RawId = uint32_t.  A raw value is held as two 16-bit limbs <<hi, lo>>, so
\* that the whole 32-bit range, 2^32-1 included, is representable.
LimbBase == 65536

\* conversion of a (signed) integer to uint32_t: n mod 2^32
RawId(n) == <<(n \div LimbBase) % LimbBase, n % LimbBase>>

\* uint32_t operator<
RawLess(a, b) == a[1] < b[1] \/ (a[1] = b[1] /\ a[2] < b[2])

Kinds == {"void", "Type", "Func"}
IdSlots == {"a", "b", "c"}
IdInputs == {-2, -1, 0, 65535, 65536}
NoCmp == [op |-> "none"]

\* Id() : id(-1)
IdDefault(K) == [kind |-> K, id |-> RawId(-1)]

\* explicit Id(RawId id) : id(id)
IdFromRaw(K, raw) == [kind |-> K, id |-> raw]

IdConvertDropsValue(K, o) ==
    [kind |-> K, id |-> IF K = o.kind THEN o.id ELSE RawId(-1)]

\* Id(Id<U> o) : id(o.id); implicit to Id<void> or to the same kind, explicit otherwise
IdConvert(K, o) == [kind |-> K, id |-> o.id]

\* bool Valid() const { return id != RawId(-1); }
IdValid(i) == i.id # RawId(-1)

IdEqSelf(a, b) == a.id = a.id

\* bool operator==(const Id& o) const { return id == o.id; }
IdEq(a, b) == a.id = b.id
IdNe(a, b) == a.id # b.id
IdLess(a, b) == RawLess(a.id, b.id)

IdInit ==
    /\ id_slot = [s \in IdSlots |-> IdDefault("void")]
    /\ id_origin = [s \in IdSlots |-> -1]
    /\ id_cmp = NoCmp

IdConstructDefault ==
    \E s \in IdSlots, K \in Kinds :
        /\ id_slot' = [id_slot EXCEPT ![s] = IdDefault(K)]
        /\ id_origin' = [id_origin EXCEPT ![s] = -1]
        /\ id_cmp' = NoCmp
        /\ UNCHANGED not_id

IdConstructRaw ==
    \E s \in IdSlots, K \in Kinds, n \in IdInputs :
        /\ id_slot' = [id_slot EXCEPT ![s] = IdFromRaw(K, RawId(n))]
        /\ id_origin' = [id_origin EXCEPT ![s] = n]
        /\ id_cmp' = NoCmp
        /\ UNCHANGED not_id

IdConstructConvert ==
    \E s \in IdSlots, t \in IdSlots, K \in Kinds :
        /\ id_slot' = [id_slot EXCEPT ![t] = IdConvert(K, id_slot[s])]
        /\ id_origin' = [id_origin EXCEPT ![t] = id_origin[s]]
        /\ id_cmp' = [op |-> "conv", x |-> s, y |-> t, cross |-> (K # id_slot[s].kind)]
        /\ UNCHANGED not_id

IdCompare ==
    \E s \in IdSlots, t \in IdSlots :
        /\ id_cmp' = [op |-> "cmp", x |-> s, y |-> t,
                      eq |-> IdEq(id_slot[s], id_slot[t]),
                      ne |-> IdNe(id_slot[s], id_slot[t]),
                      lt |-> IdLess(id_slot[s], id_slot[t])]
        /\ UNCHANGED <<id_slot, id_origin, not_id>>

IdNext == IdConstructDefault \/ IdConstructRaw \/ IdConstructConvert \/ IdCompare

\* the order of two integers of IdInputs as 32-bit unsigned values
UnsignedLess(m, n) ==
    \/ m >= 0 /\ n >= 0 /\ m < n
    \/ m >= 0 /\ n < 0
    \/ m < 0 /\ n < 0 /\ m < n

\* C8: an Id's validity and comparisons depend only on its 32-bit raw value:
\* a default Id holds 2^32-1 and is invalid, Valid() is true exactly when the
\* raw value is not 2^32-1, ==, != and < are those of the raw values, < is a
\* strict total order, and conversions between kinds keep the raw value.
C8_IdRawValueOnly ==
    /\ \A s \in IdSlots :
        /\ id_slot[s].id = RawId(id_origin[s])
        /\ id_origin[s] = -1 => id_slot[s].id = <<LimbBase - 1, LimbBase - 1>>
        /\ IdValid(id_slot[s]) <=> id_origin[s] # -1
    /\ id_cmp.op = "cmp" =>
        /\ id_cmp.eq <=> id_origin[id_cmp.x] = id_origin[id_cmp.y]
        /\ id_cmp.ne <=> ~id_cmp.eq
        /\ id_cmp.lt <=> UnsignedLess(id_origin[id_cmp.x], id_origin[id_cmp.y])
    /\ \A s \in IdSlots, t \in IdSlots :
        LET a == id_slot[s]
            b == id_slot[t]
        IN  /\ ~(IdLess(a, b) /\ IdLess(b, a))
            /\ ~(IdLess(a, b) /\ IdEq(a, b))
            /\ IdLess(a, b) \/ IdEq(a, b) \/ IdLess(b, a)
            /\ \A u \in IdSlots :
                IdLess(a, b) /\ IdLess(b, id_slot[u]) => IdLess(a, id_slot[u])

\* an invalid Id converted to another kind stays invalid, beside two Ids of
\* different kinds ordered across the limb boundary (65535 < 65536)
C8_Witness ==
    /\ id_cmp.op = "conv" /\ id_cmp.cross
    /\ id_origin[id_cmp.y] = -1 /\ ~IdValid(id_slot[id_cmp.y])
    /\ \E s \in IdSlots, t \in IdSlots :
        /\ id_origin[s] = 65535 /\ id_origin[t] = 65536
        /\ id_slot[s].kind # id_slot[t].kind
        /\ IdLess(id_slot[s], id_slot[t])

(***************************************************************************)
(* Reference (clang_tu.h:137-150) and the sorted, duplicate-free lists of  *)
(* declarations and uses of one entity                                     *)
(***************************************************************************)
MaxRefs == 3

\* Range: a [start, end) pair of packed positions
MkRange(s, e) == [start |-> s, end |-> e]

\* Range::operator<: lexicographic on (start, end)
RangeLess(a, b) == a.start < b.start \/ (a.start = b.start /\ a.end < b.end)

\* SymbolKind: Invalid, File, Type, Func, Var
SymbolKinds == [Invalid |-> 0, File |-> 1, Type |-> 2, Func |-> 3, Var |-> 4]

\* Role bits: Declaration, Definition, Reference
Roles == [Declaration |-> 1, Definition |-> 2, Reference |-> 4]

MkRef(range, n, kind, role) ==
    [range |-> range, id |-> IdFromRaw("void", RawId(n)), kind |-> kind, role |-> role]

NoRef == [range |-> MkRange(0, 0), id |-> IdDefault("void"), kind |-> 0, role |-> 0]

\* the occurrences the frontend reports for the entity
RefInputs ==
    { MkRef(MkRange(1, 2), 1, SymbolKinds.Type, Roles.Declaration),
      MkRef(MkRange(1, 2), 0, SymbolKinds.Func, Roles.Declaration),
      MkRef(MkRange(1, 2), 0, SymbolKinds.Func, Roles.Reference),
      MkRef(MkRange(1, 2), 0, SymbolKinds.Type, Roles.Reference),
      MkRef(MkRange(1, 3), 0, SymbolKinds.Type, Roles.Declaration),
      MkRef(MkRange(2, 3), 0, SymbolKinds.Func, Roles.Declaration) }

ToTupleIdFirst(r) ==
    << [t |-> "id", v |-> r.id], [t |-> "range", v |-> r.range],
       [t |-> "enum", v |-> r.kind], [t |-> "enum", v |-> r.role] >>

\* std::make_tuple(range, id, kind, role)
ToTuple(r) ==
    << [t |-> "range", v |-> r.range], [t |-> "id", v |-> r.id],
       [t |-> "enum", v |-> r.kind], [t |-> "enum", v |-> r.role] >>

\* operator< and operator== of one tuple element, by its type
ElemLess(x, y) ==
    CASE x.t = "range" -> RangeLess(x.v, y.v)
      [] x.t = "id" -> IdLess(x.v, y.v)
      [] OTHER -> x.v < y.v

ElemEq(x, y) ==
    CASE x.t = "id" -> IdEq(x.v, y.v)
      [] OTHER -> x.v = y.v

\* std::tuple operator<: lexicographic, from element i on
RECURSIVE TupleLessFrom(_, _, _)
TupleLessFrom(t, u, i) ==
    IF i > Len(t) THEN FALSE
    ELSE IF ElemLess(t[i], u[i]) THEN TRUE
    ELSE IF ElemLess(u[i], t[i]) THEN FALSE
    ELSE TupleLessFrom(t, u, i + 1)

TupleEq(t, u) == \A i \in 1..Len(t) : ElemEq(t[i], u[i])

\* bool operator==(const Reference& o) const { return ToTuple() == o.ToTuple(); }
RefEq(a, b) == TupleEq(ToTuple(a), ToTuple(b))

\* bool operator<(const Reference& o) const { return ToTuple() < o.ToTuple(); }
RefLess(a, b) == TupleLessFrom(ToTuple(a), ToTuple(b), 1)

\* std::lower_bound: the first index whose element is not less than ref
RECURSIVE LowerBoundFrom(_, _, _)
LowerBoundFrom(list, ref, i) ==
    IF i > Len(list) \/ ~RefLess(list[i], ref) THEN i
    ELSE LowerBoundFrom(list, ref, i + 1)

InsertAt(list, i, ref) ==
    SubSeq(list, 1, i - 1) \o <<ref>> \o SubSeq(list, i, Len(list))

\* an occurrence already stored at its place of the sorted list
IsDuplicate(list, ref) ==
    LET i == LowerBoundFrom(list, ref, 1)
    IN  i <= Len(list) /\ RefEq(list[i], ref)

\* insert keeping the list sorted, dropping an occurrence already stored
InsertUnique(list, ref) ==
    IF IsDuplicate(list, ref) THEN list
    ELSE InsertAt(list, LowerBoundFrom(list, ref, 1), ref)

RefInit ==
    /\ ref_decls = <<>>
    /\ ref_uses = <<>>
    /\ ref_last = [list |-> "none", ref |-> NoRef, dup |-> FALSE]

AddDeclaration ==
    \E r \in RefInputs :
        /\ IsDuplicate(ref_decls, r) \/ Len(ref_decls) < MaxRefs
        /\ ref_decls' = InsertUnique(ref_decls, r)
        /\ ref_last' = [list |-> "declarations", ref |-> r,
                        dup |-> IsDuplicate(ref_decls, r)]
        /\ UNCHANGED <<ref_uses, not_ref>>

AddUse ==
    \E r \in RefInputs :
        /\ IsDuplicate(ref_uses, r) \/ Len(ref_uses) < MaxRefs
        /\ ref_uses' = InsertUnique(ref_uses, r)
        /\ ref_last' = [list |-> "uses", ref |-> r, dup |-> IsDuplicate(ref_uses, r)]
        /\ UNCHANGED <<ref_decls, not_ref>>

\* the numeric value of a raw id below 2^31
IdNum(i) == i.id[1] * LimbBase + i.id[2]

\* (range, id, kind, role) as a sequence of numbers, the id by its two limbs
RefKey(r) == <<r.range.start, r.range.end, r.id.id[1], r.id.id[2], r.kind, r.role>>

LexLt(k1, k2) ==
    \E i \in 1..Len(k1) : (\A j \in 1..(i - 1) : k1[j] = k2[j]) /\ k1[i] < k2[i]

RefsSeen == {ref_decls[i] : i \in 1..Len(ref_decls)}
                \cup {ref_uses[i] : i \in 1..Len(ref_uses)} \cup {ref_last.ref}

\* C10: after any sequence of declaration and use insertions, repeated events
\* included, both lists are strictly increasing under Reference::operator<,
\* which is the lexicographic order on (range, id, kind, role) and agrees with
\* operator==; no two stored entries are equal, and entries with different
\* ranges are ordered by range whatever their id, kind and role.
C10_RefListsStrictlySorted ==
    /\ \A L \in {ref_decls, ref_uses} : \A i \in 1..Len(L), j \in 1..Len(L) :
        i < j =>
            /\ RefLess(L[i], L[j])
            /\ LexLt(RefKey(L[i]), RefKey(L[j]))
            /\ ~RefEq(L[i], L[j]) /\ L[i] # L[j]
            /\ L[i].range # L[j].range =>
                LexLt(<<L[i].range.start, L[i].range.end>>,
                      <<L[j].range.start, L[j].range.end>>)
    /\ \A a \in RefsSeen, b \in RefsSeen :
        /\ RefLess(a, b) <=> LexLt(RefKey(a), RefKey(b))
        /\ RefEq(a, b) <=> (~RefLess(a, b) /\ ~RefLess(b, a))

\* a repeated event was dropped from a full list that holds two entries of one
\* range with different ids and two entries whose ranges and ids order oppositely
C10_Witness ==
    /\ ref_last.dup /\ ref_last.list = "uses"
    /\ Len(ref_uses) = MaxRefs /\ Len(ref_decls) >= 2
    /\ \E i \in 1..Len(ref_uses), j \in 1..Len(ref_uses) :
        i < j /\ ref_uses[i].range = ref_uses[j].range /\ ref_uses[i].id # ref_uses[j].id
    /\ \E i \in 1..Len(ref_uses), j \in 1..Len(ref_uses) :
        i < j /\ IdNum(ref_uses[i].id) > IdNum(ref_uses[j].id)

RefNext == AddDeclaration \/ AddUse

(***************************************************************************)
(* NameMixin::Name (clang_tu.h:180-192)                                    *)
(***************************************************************************)
MaxNameLen == 3

NameChars == {"n", "C"}

\* all strings over NameChars of length at most n
RECURSIVE StringsUpTo(_)
StringsUpTo(n) ==
    IF n = 0 THEN {<<>>}
    ELSE LET shorter == StringsUpTo(n - 1)
         IN  shorter \cup {Append(s, c) : s \in shorter, c \in NameChars}

\* detailed_name and the three int16_t fields of a Def record
NameInputs ==
    [detailed_name : StringsUpTo(MaxNameLen),
     qual_name_offset : -1..MaxNameLen,
     short_name_offset : -1..MaxNameLen,
     short_name_size : -1..MaxNameLen]

\* int16_t qual_name_offset = 0; short_name_offset = 0; short_name_size = 0;
NameDefault ==
    [detailed_name |-> <<>>, qual_name_offset |-> 0, short_name_offset |-> 0,
     short_name_size |-> 0]

NoView == [st |-> "none", chars |-> <<>>]

\* detailed_name.c_str(): the characters and the terminating NUL
CStr(s) == Append(s, "NUL")

NameForgetsShortSize(self, qualified) ==
    IF qualified
    THEN [off |-> self.qual_name_offset,
          len |-> self.short_name_offset - self.qual_name_offset]
    ELSE [off |-> self.short_name_offset, len |-> self.short_name_size]

\* Name(qualified): the (pointer offset, length) pair of the string_view
Name(self, qualified) ==
    IF qualified
    THEN [off |-> self.qual_name_offset,
          len |-> self.short_name_offset - self.qual_name_offset
                    + self.short_name_size]
    ELSE [off |-> self.short_name_offset, len |-> self.short_name_size]

\* the view reads only c_str()'s characters; a negative length, converted to
\* size_t, is larger than any string
ViewInBounds(s, v) == v.off >= 0 /\ v.len >= 0 /\ v.off + v.len <= Len(CStr(s))

\* what reading the view yields: its characters, or, out of bounds (undefined
\* behaviour), anything
ViewOutcomes(s, v) ==
    IF ViewInBounds(s, v)
    THEN {[st |-> "ok", chars |-> SubSeq(CStr(s), v.off + 1, v.off + v.len)]}
    ELSE {[st |-> "ub", chars |-> g] : g \in {<<>>, <<"?">>}}

NameInit ==
    /\ name_rec = NameDefault
    /\ name_out = [short |-> NoView, qual |-> NoView]

\* the adapter (or a Reader) fills the record
NameFill ==
    /\ name_rec = NameDefault
    /\ name_out = [short |-> NoView, qual |-> NoView]
    /\ name_rec' \in NameInputs
    /\ UNCHANGED <<name_out, not_name>>

NameCall ==
    \E qualified \in BOOLEAN :
        \E o \in ViewOutcomes(name_rec.detailed_name, Name(name_rec, qualified)) :
            /\ name_out' = IF qualified THEN [name_out EXCEPT !.qual = o]
                           ELSE [name_out EXCEPT !.short = o]
            /\ UNCHANGED <<name_rec, not_name>>

NameNext == NameFill \/ NameCall

IsSuffix(s, t) ==
    Len(s) <= Len(t) /\ \A i \in 1..Len(s) : s[i] = t[Len(t) - Len(s) + i]

\* what the claim says of the two names of a record whose fields satisfy pre
NamesAreSubstrings(pre) ==
    LET d == name_rec.detailed_name
        q == name_rec.qual_name_offset
        s == name_rec.short_name_offset
        n == name_rec.short_name_size
    IN  pre =>
        /\ name_out.short.st # "none" =>
            /\ name_out.short.st = "ok"
            /\ Len(name_out.short.chars) = n
            /\ \A i \in 1..n : name_out.short.chars[i] = d[s + i]
        /\ name_out.qual.st # "none" =>
            /\ name_out.qual.st = "ok"
            /\ Len(name_out.qual.chars) = s + n - q
            /\ \A i \in 1..(s + n - q) : name_out.qual.chars[i] = d[q + i]
        /\ name_out.short.st # "none" /\ name_out.qual.st # "none" =>
            IsSuffix(name_out.short.chars, name_out.qual.chars)

NameOffsetsOrdered ==
    /\ 0 <= name_rec.qual_name_offset
    /\ name_rec.qual_name_offset <= name_rec.short_name_offset
    /\ name_rec.short_name_offset + name_rec.short_name_size
            <= Len(name_rec.detailed_name)

\* C7 as stated: whenever 0 <= qual_name_offset <= short_name_offset and
\* short_name_offset + short_name_size <= length(detailed_name), Name(false)
\* and Name(true) are the substrings of detailed_name at those offsets and the
\* short name is a suffix of the qualified name.
C7_Original == NamesAreSubstrings(NameOffsetsOrdered)

\* C7, amended: the same, for records whose short_name_size is not negative.
C7_NameSubstrings ==
    NamesAreSubstrings(NameOffsetsOrdered /\ name_rec.short_name_size >= 0)

\* both names were taken of a record with a proper qualified prefix
C7_Witness ==
    /\ NameOffsetsOrdered /\ name_rec.short_name_size > 0
    /\ name_rec.qual_name_offset > 0
    /\ name_rec.qual_name_offset < name_rec.short_name_offset
    /\ name_out.short.st = "ok" /\ name_out.qual.st = "ok"
    /\ Len(name_out.qual.chars) > Len(name_out.short.chars)

(***************************************************************************)
(* TypeDef, FuncDef, VarDef: operator== and Reflect (clang_tu.h:194-420)   *)
(***************************************************************************)
MaxChanged == 2

DefKinds == {"TypeDef", "FuncDef", "VarDef"}

\* the data members, in declaration order
TypeDefMembers ==
    <<"detailed_name", "hover", "comments", "spell", "extent", "bases", "types",
      "funcs", "vars", "file", "alias_of", "qual_name_offset", "short_name_offset",
      "short_name_size", "kind">>
FuncDefMembers ==
    <<"detailed_name", "hover", "comments", "spell", "extent", "bases", "vars",
      "callees", "file", "declaring_type", "qual_name_offset", "short_name_offset",
      "short_name_size", "kind", "storage">>
VarDefMembers ==
    <<"detailed_name", "hover", "comments", "spell", "extent", "file", "type",
      "qual_name_offset", "short_name_offset", "short_name_size", "kind", "storage">>

\* the members operator== compares
TypeDefEq ==
    <<"detailed_name", "spell", "extent", "alias_of", "bases", "types", "funcs",
      "vars", "kind", "hover", "comments">>
FuncDefEq ==
    <<"detailed_name", "spell", "extent", "declaring_type", "bases", "vars",
      "callees", "kind", "storage", "hover", "comments">>
VarDefEq ==
    <<"detailed_name", "spell", "extent", "type", "kind", "storage", "hover",
      "comments">>

\* the REFLECT_MEMBER lines of Reflect, in order
TypeDefReflect ==
    <<"detailed_name", "qual_name_offset", "short_name_offset", "short_name_size",
      "kind", "hover", "comments", "spell", "extent", "file", "alias_of", "bases",
      "types", "funcs", "vars">>
FuncDefReflectNoCallees ==
    <<"detailed_name", "qual_name_offset", "short_name_offset", "short_name_size",
      "kind", "storage", "hover", "comments", "spell", "extent", "file",
      "declaring_type", "bases", "vars">>
FuncDefReflect ==
    <<"detailed_name", "qual_name_offset", "short_name_offset", "short_name_size",
      "kind", "storage", "hover", "comments", "spell", "extent", "file",
      "declaring_type", "bases", "vars", "callees">>
VarDefReflect ==
    <<"detailed_name", "qual_name_offset", "short_name_offset", "short_name_size",
      "hover", "comments", "spell", "extent", "file", "type", "kind", "storage">>

MembersOf(k) ==
    CASE k = "TypeDef" -> TypeDefMembers [] k = "FuncDef" -> FuncDefMembers
      [] OTHER -> VarDefMembers
EqOf(k) ==
    CASE k = "TypeDef" -> TypeDefEq [] k = "FuncDef" -> FuncDefEq [] OTHER -> VarDefEq
ReflectOf(k) ==
    CASE k = "TypeDef" -> TypeDefReflect [] k = "FuncDef" -> FuncDefReflect
      [] OTHER -> VarDefReflect

SeqToSet(s) == {s[i] : i \in 1..Len(s)}

\* the C++ type of a member
FieldType(f) ==
    CASE f \in {"spell", "extent"} -> "MaybeUse"
      [] f \in {"bases", "types", "funcs", "vars"} -> "IdVec"
      [] f = "callees" -> "RefVec"
      [] f \in {"file", "alias_of", "declaring_type", "type"} -> "Id"
      [] OTHER -> "plain"

\* the entity kind of the Ids a member holds
FieldIdKind(k, f) ==
    CASE f = "file" -> "File"
      [] f \in {"alias_of", "declaring_type", "type", "types"} -> "Type"
      [] f = "funcs" -> "Func"
      [] f = "vars" -> "Var"
      [] f = "bases" -> (IF k = "FuncDef" THEN "Func" ELSE "Type")
      [] OTHER -> "void"

\* Use: a Reference and the file id only the query layer sets
MkUse(ref, file) ==
    [range |-> ref.range, id |-> ref.id, kind |-> ref.kind, role |-> ref.role,
     file |-> file]

\* a default-constructed member (Maybe<Use> holds an invalid Use, Maybe<Id> an
\* invalid Id)
FieldDefault(k, f) ==
    CASE FieldType(f) = "MaybeUse" -> MkUse(NoRef, IdDefault("QueryFile"))
      [] FieldType(f) \in {"IdVec", "RefVec"} -> <<>>
      [] FieldType(f) = "Id" -> IdDefault(FieldIdKind(k, f))
      [] f = "detailed_name" -> <<>>
      [] f \in {"hover", "comments"} -> ""
      [] f = "kind" -> "Unknown"
      [] f = "storage" -> "Invalid"
      [] OTHER -> 0

\* a value the adapter gives the member
FieldOther(k, f) ==
    CASE FieldType(f) = "MaybeUse" ->
            MkUse(MkRef(MkRange(1, 3), 0, SymbolKinds.Type, Roles.Definition),
                  IdFromRaw("QueryFile", RawId(7)))
      [] FieldType(f) = "IdVec" ->
            <<IdFromRaw(FieldIdKind(k, f), RawId(1)), IdFromRaw(FieldIdKind(k, f), RawId(0))>>
      [] FieldType(f) = "RefVec" ->
            <<MkRef(MkRange(2, 3), 1, SymbolKinds.Func, Roles.Reference)>>
      [] FieldType(f) = "Id" -> IdFromRaw(FieldIdKind(k, f), RawId(2))
      [] f = "detailed_name" -> <<"n", "C">>
      [] f \in {"hover", "comments"} -> "text"
      [] f = "kind" -> "Class"
      [] f = "storage" -> "Static"
      [] OTHER -> 1

DefDefault(k) == [f \in SeqToSet(MembersOf(k)) |-> FieldDefault(k, f)]

\* the records of kind k that differ from the default in the members of S
DefWith(k, S) ==
    [f \in SeqToSet(MembersOf(k)) |->
        IF f \in S THEN FieldOther(k, f) ELSE FieldDefault(k, f)]

\* Reflect(visitor, Id<T>& id) { Reflect(visitor, id.id); }: the writer emits
\* the raw value, the reader stores the raw value into the Id it is given
WriteId(v) == v.id
ReadId(x, w) == [x EXCEPT !.id = w]

\* Reflect(Writer&, Reference&) and Reflect(Reader&, Reference&): range, id,
\* kind and role; a Use passes as its Reference part, its file id is not seen
WriteReference(v) ==
    [range |-> v.range, id |-> WriteId(v.id), kind |-> v.kind, role |-> v.role]
ReadReference(x, w) ==
    [x EXCEPT !.range = w.range, !.id = ReadId(x.id, w.id), !.kind = w.kind,
              !.role = w.role]

\* REFLECT_MEMBER with a Writer: what is emitted for a member of type t
WriteValue(t, v) ==
    CASE t = "Id" -> WriteId(v)
      [] t = "IdVec" -> [i \in 1..Len(v) |-> WriteId(v[i])]
      [] t = "MaybeUse" -> WriteReference(v)
      [] t = "RefVec" -> [i \in 1..Len(v) |-> WriteReference(v[i])]
      [] OTHER -> v

\* REFLECT_MEMBER with a Reader: the default-constructed member x (its Ids of
\* kind K) after the reader has filled it from the emitted value w
ReadValue(t, K, x, w) ==
    CASE t = "Id" -> ReadId(x, w)
      [] t = "IdVec" -> [i \in 1..Len(w) |-> ReadId(IdDefault(K), w[i])]
      [] t = "MaybeUse" -> ReadReference(x, w)
      [] t = "RefVec" -> [i \in 1..Len(w) |-> ReadReference(NoRef, w[i])]
      [] OTHER -> w

\* Reflect with a Writer: one value per REFLECT_MEMBER, in order
ReflectWrite(k, rec) ==
    [i \in 1..Len(ReflectOf(k)) |->
        WriteValue(FieldType(ReflectOf(k)[i]), rec[ReflectOf(k)[i]])]

\* Reflect with a Reader on a default-constructed record: the i-th
\* REFLECT_MEMBER consumes the i-th value
ReflectRead(k, stream) ==
    [f \in SeqToSet(MembersOf(k)) |->
        IF \E i \in 1..Len(ReflectOf(k)) : ReflectOf(k)[i] = f /\ i <= Len(stream)
        THEN LET i == CHOOSE i \in 1..Len(ReflectOf(k)) : ReflectOf(k)[i] = f
             IN  ReadValue(FieldType(f), FieldIdKind(k, f), FieldDefault(k, f), stream[i])
        ELSE FieldDefault(k, f)]

\* operator== of one member, by its type
FieldEq(t, x, y) ==
    CASE t = "Id" -> IdEq(x, y)
      [] t = "IdVec" -> Len(x) = Len(y) /\ \A i \in 1..Len(x) : IdEq(x[i], y[i])
      [] t = "MaybeUse" -> RefEq(x, y)
      [] t = "RefVec" -> Len(x) = Len(y) /\ \A i \in 1..Len(x) : RefEq(x[i], y[i])
      [] OTHER -> x = y

\* bool operator==(const Def& o) const
DefEq(k, a, b) ==
    \A i \in 1..Len(EqOf(k)) : FieldEq(FieldType(EqOf(k)[i]), a[EqOf(k)[i]], b[EqOf(k)[i]])

ReflInit ==
    /\ refl_pc = "idle"
    /\ refl_kind = "TypeDef"
    /\ refl_rec = DefDefault("TypeDef")
    /\ refl_stream = <<>>
    /\ refl_back = DefDefault("TypeDef")

ReflPick ==
    /\ refl_pc = "idle"
    /\ \E k \in DefKinds :
        \E S \in SUBSET SeqToSet(MembersOf(k)) :
            /\ Cardinality(S) <= MaxChanged
            /\ refl_kind' = k
            /\ refl_rec' = DefWith(k, S)
            /\ refl_back' = DefDefault(k)
    /\ refl_pc' = "picked"
    /\ UNCHANGED <<refl_stream, not_refl>>

ReflWrite ==
    /\ refl_pc = "picked"
    /\ refl_stream' = ReflectWrite(refl_kind, refl_rec)
    /\ refl_pc' = "written"
    /\ UNCHANGED <<refl_kind, refl_rec, refl_back, not_refl>>

ReflRead ==
    /\ refl_pc = "written"
    /\ refl_back' = ReflectRead(refl_kind, refl_stream)
    /\ refl_pc' = "read"
    /\ UNCHANGED <<refl_kind, refl_rec, refl_stream, not_refl>>

ReflNext == ReflPick \/ ReflWrite \/ ReflRead

\* C6: a TypeDef, FuncDef or VarDef written with Reflect and read back with
\* the same Reflect equals the original under operator==: every member that
\* operator== compares is reflected, and the reader consumes the values in the
\* order the writer emitted them.
C6_ReflectRoundTrip ==
    /\ refl_pc = "read" =>
        /\ DefEq(refl_kind, refl_back, refl_rec)
        /\ DefEq(refl_kind, refl_rec, refl_back)
    /\ refl_pc \in {"written", "read"} =>
        /\ Len(refl_stream) = Len(ReflectOf(refl_kind))
        /\ SeqToSet(EqOf(refl_kind)) \subseteq SeqToSet(ReflectOf(refl_kind))

\* a FuncDef with callees and a spell whose file id is set was written and
\* read back: equal under operator==, though the Use's file id is not restored
C6_Witness ==
    /\ refl_pc = "read" /\ refl_kind = "FuncDef"
    /\ refl_rec.callees # <<>>
    /\ refl_rec.spell.range = MkRange(1, 3)
    /\ refl_back.callees = refl_rec.callees
    /\ refl_back.spell.file # refl_rec.spell.file
    /\ refl_back # refl_rec

(***************************************************************************)
(* IndexFile: the entity vectors, the IdCache (clang_tu.h:436-444), the    *)
(* To*Id operations (clang_tu.h:492-494) and the base/derived edges of     *)
(* IndexType and IndexFunc (clang_tu.h:259-279, 338-367)                   *)
(***************************************************************************)
MaxEdgeEvents == 3

\* Usr: the hash of the unified symbol name
Usrs == {11, 22, 33}
EntityKinds == {"type", "func", "var"}

\* IndexTypeId, IndexFuncId, IndexVarId
IdKindOf(kind) ==
    CASE kind = "type" -> "Type" [] kind = "func" -> "Func" [] OTHER -> "Var"

\* std::unordered_map<Id, Usr>: a set of entries [k, v]; keys are compared
\* with Id::operator== (std::hash<Id<T>> hashes the raw value alone)
IdMapFind(m, key) == {e \in m : IdEq(e.k, key)}

\* m[key] = val
IdMapPut(m, key, val) ==
    IF IdMapFind(m, key) = {} THEN m \cup {[k |-> key, v |-> val]}
    ELSE {IF IdEq(e.k, key) THEN [e EXCEPT !.v = val] ELSE e : e \in m}

\* std::unordered_map<Usr, Id>
UsrMapFind(m, usr) == {e \in m : e.k = usr}

\* IndexType(id, usr), IndexFunc(id, usr), IndexVar(id, usr): def default-initialized
NewEntity(id, usr) == [usr |-> usr, id |-> id, bases |-> <<>>, derived |-> <<>>]

\* an IndexFile: its vectors and its id_cache
EmptyFile ==
    [ent |-> [k \in EntityKinds |-> <<>>],
     u2i |-> [k \in EntityKinds |-> {}],
     i2u |-> [k \in EntityKinds |-> {}]]

\* To{Type,Func,Var}Id(usr): the file afterwards and the id returned
ToId(f, kind, usr) ==
    LET hit == UsrMapFind(f.u2i[kind], usr)
        id == IdFromRaw(IdKindOf(kind), RawId(Len(f.ent[kind])))
    IN  IF hit # {}
        THEN [file |-> f, id |-> (CHOOSE e \in hit : TRUE).v]
        ELSE [file |-> [ent |-> [f.ent EXCEPT ![kind] = Append(@, NewEntity(id, usr))],
                        u2i |-> [f.u2i EXCEPT ![kind] = @ \cup {[k |-> usr, v |-> id]}],
                        i2u |-> [f.i2u EXCEPT ![kind] = IdMapPut(@, id, usr)]],
              id |-> id]

ToTypeId(f, usr) == ToId(f, "type", usr)
ToFuncId(f, usr) == ToId(f, "func", usr)
ToVarId(f, usr) == ToId(f, "var", usr)

\* Resolve(id): the index of the entity in its vector (1-based here)
Resolve(id) == IdNum(id) + 1

AddEdgeForgetsDerived(f, kind, id, parent) ==
    [f EXCEPT !.ent[kind] = [@ EXCEPT ![Resolve(id)].bases = Append(@, parent)]]

\* parent->derived.push_back(id); entity->def.bases.push_back(parent_id);
AddEdge(f, kind, id, parent) ==
    [f EXCEPT !.ent[kind] =
        [[@ EXCEPT ![Resolve(parent)].derived = Append(@, id)]
            EXCEPT ![Resolve(id)].bases = Append(@, parent)]]

\* the loop over the bases (or overridden methods) a declaration event reports
RECURSIVE AddBases(_, _, _, _)
AddBases(f, kind, id, bases) ==
    IF bases = <<>> THEN f
    ELSE LET p == ToId(f, kind, Head(bases))
         IN  AddBases(AddEdge(p.file, kind, id, p.id), kind, id, Tail(bases))

\* a class or method declaration event of the entity usr with its bases
OnDeclaration(f, kind, usr, bases) ==
    LET d == ToId(f, kind, usr)
    IN  AddBases(d.file, kind, d.id, bases)

IxFile == [ent |-> ix_ent, u2i |-> ix_u2i, i2u |-> ix_i2u]

IxInit ==
    /\ ix_ent = EmptyFile.ent
    /\ ix_u2i = EmptyFile.u2i
    /\ ix_i2u = EmptyFile.i2u
    /\ ix_last = [kind |-> "none", usr |-> 0, ret |-> IdDefault("void"),
                  before |-> 0, known |-> FALSE]
    /\ ix_events = 0

\* ghost record of a To*Id call made on the file in its current state
LastCall(kind, usr, r) ==
    [kind |-> kind, usr |-> usr, ret |-> r.id, before |-> Len(ix_ent[kind]),
     known |-> \E i \in 1..Len(ix_ent[kind]) : ix_ent[kind][i].usr = usr]

CallToTypeId ==
    \E usr \in Usrs :
        LET r == ToTypeId(IxFile, usr)
        IN  /\ ix_ent' = r.file.ent /\ ix_u2i' = r.file.u2i /\ ix_i2u' = r.file.i2u
            /\ ix_last' = LastCall("type", usr, r)
            /\ UNCHANGED <<ix_events, not_ix>>

CallToFuncId ==
    \E usr \in Usrs :
        LET r == ToFuncId(IxFile, usr)
        IN  /\ ix_ent' = r.file.ent /\ ix_u2i' = r.file.u2i /\ ix_i2u' = r.file.i2u
            /\ ix_last' = LastCall("func", usr, r)
            /\ UNCHANGED <<ix_events, not_ix>>

CallToVarId ==
    \E usr \in Usrs :
        LET r == ToVarId(IxFile, usr)
        IN  /\ ix_ent' = r.file.ent /\ ix_u2i' = r.file.u2i /\ ix_i2u' = r.file.i2u
            /\ ix_last' = LastCall("var", usr, r)
            /\ UNCHANGED <<ix_events, not_ix>>

IxCacheNext == CallToTypeId \/ CallToFuncId \/ CallToVarId

\* the base lists an event may report for usr: one other entity, or both others
BaseLists(usr) ==
    {<<b>> : b \in Usrs \ {usr}}
        \cup {<<b, c>> : b \in {x \in Usrs \ {usr} : \A y \in Usrs \ {usr} : x <= y},
                        c \in {x \in Usrs \ {usr} : \A y \in Usrs \ {usr} : y <= x}}

\* a class declaration event with its base classes
OnClassDeclaration ==
    \E usr \in Usrs : \E bases \in BaseLists(usr) :
        /\ ix_events < MaxEdgeEvents
        /\ LET f == OnDeclaration(IxFile, "type", usr, bases)
           IN  ix_ent' = f.ent /\ ix_u2i' = f.u2i /\ ix_i2u' = f.i2u
        /\ ix_events' = ix_events + 1
        /\ UNCHANGED <<ix_last, not_ix>>

\* a method declaration event with the method it overrides
OnMethodDeclaration ==
    \E usr \in Usrs : \E b \in Usrs \ {usr} :
        /\ ix_events < MaxEdgeEvents
        /\ LET f == OnDeclaration(IxFile, "func", usr, <<b>>)
           IN  ix_ent' = f.ent /\ ix_u2i' = f.u2i /\ ix_i2u' = f.i2u
        /\ ix_events' = ix_events + 1
        /\ UNCHANGED <<ix_last, not_ix>>

IxEdgesNext == OnClassDeclaration \/ OnMethodDeclaration

Count(s, x) == Cardinality({i \in 1..Len(s) : s[i] = x})

\* C3: after any sequence of ToTypeId / ToFuncId / ToVarId calls, for each kind
\* the IdCache is a bijection between the USRs seen and the indices 0..n-1 of
\* the entity vector; the first call for a USR appends exactly one record and
\* every later call returns the same id without appending.
C3_IdCacheBijective ==
    /\ \A kind \in EntityKinds :
        LET v == ix_ent[kind]
        IN  /\ \A i \in 1..Len(v) :
                /\ v[i].id = [kind |-> IdKindOf(kind), id |-> <<0, i - 1>>]
                /\ {e.v : e \in UsrMapFind(ix_u2i[kind], v[i].usr)} = {v[i].id}
                /\ {e.v : e \in {e \in ix_i2u[kind] : e.k = v[i].id}} = {v[i].usr}
            /\ \A i \in 1..Len(v), j \in 1..Len(v) : i # j => v[i].usr # v[j].usr
            /\ Cardinality(ix_u2i[kind]) = Len(v)
            /\ Cardinality(ix_i2u[kind]) = Len(v)
    /\ ix_last.kind # "none" =>
        LET v == ix_ent[ix_last.kind]
        IN  /\ Len(v) = ix_last.before + (IF ix_last.known THEN 0 ELSE 1)
            /\ ~ix_last.known => v[Len(v)].usr = ix_last.usr
            /\ \E i \in 1..Len(v) : v[i].usr = ix_last.usr /\ v[i].id = ix_last.ret

\* every USR has been interned for every kind, and the last call was a repeat
C3_Witness ==
    /\ \A kind \in EntityKinds : Len(ix_ent[kind]) = Cardinality(Usrs)
    /\ ix_last.known /\ ix_last.ret.id = <<0, 1>>

NumWorkers == 2

Workers == 1..NumWorkers

\* getenv("CCLS_CRASH_RECOVERY"): NULL, or a string of character codes
EnvUnset == [set |-> FALSE, val |-> <<>>]
EnvString(s) == [set |-> TRUE, val |-> s]

\* "", "0", "1", "00"
EnvValues == {EnvString(<<>>), EnvString(<<48>>), EnvString(<<49>>), EnvString(<<48, 48>>)}

\* strcmp: the sign of the first difference
RECURSIVE StrCmp(_, _)
StrCmp(a, b) ==
    IF a = <<>> /\ b = <<>> THEN 0
    ELSE IF a = <<>> THEN -1
    ELSE IF b = <<>> THEN 1
    ELSE IF Head(a) < Head(b) THEN -1
    ELSE IF Head(a) > Head(b) THEN 1
    ELSE StrCmp(Tail(a), Tail(b))

\* llvm::CrashRecoveryContext::RunSafely: false when a fatal fault was caught
CrcRunSafely(fault) == ~fault

RunSafelyIgnoresResult(e, fault) ==
    IF e.set /\ StrCmp(e.val, <<48>>) = 0
    THEN [crc |-> FALSE, returns |-> ~fault, ret |-> TRUE]
    ELSE [crc |-> TRUE, returns |-> TRUE, ret |-> TRUE]

RunSafelyAnyValueDisables(e, fault) ==
    IF e.set
    THEN [crc |-> FALSE, returns |-> ~fault, ret |-> TRUE]
    ELSE [crc |-> TRUE, returns |-> TRUE, ret |-> CrcRunSafely(fault)]

\* RunSafely(CRC, fn) with the environment e, for a closure that does or does
\* not hit a fatal fault: whether fn runs inside the crash-recovery context,
\* whether RunSafely returns at all, and what it returns
RunSafely(e, fault) ==
    IF e.set /\ StrCmp(e.val, <<48>>) = 0
    THEN [crc |-> FALSE, returns |-> ~fault, ret |-> TRUE]
    ELSE [crc |-> TRUE, returns |-> TRUE, ret |-> CrcRunSafely(fault)]

Roots == {"a.cc", "b.cc"}
Headers == {"util.h", "config.h"}

\* the files in which the frontend reports events while parsing a root
Stream(r) ==
    IF r = "a.cc" THEN <<"a.cc", "util.h", "config.h", "a.cc">>
    ELSE <<"b.cc", "config.h", "util.h">>

MarkAlwaysTrue(m, path) == [ok |-> TRUE, marked |-> m \cup {path}]

\* mark(path): true to the first caller for a path, false to every later one
Mark(m, path) == [ok |-> path \notin m, marked |-> m \cup {path}]

NoLocal == [owned |-> {}, dropped |-> {}]

\* the IndexFiles a parse returns: the owned ones, or none when the shim failed
ParseResult(ok, loc) == IF ok THEN loc.owned ELSE {}

ParseInit ==
    /\ env = EnvUnset
    /\ proc = "running"
    /\ marked = {}
    /\ pc = [w \in Workers |-> "idle"]
    /\ root = [w \in Workers |-> "a.cc"]
    /\ pos = [w \in Workers |-> 0]
    /\ local = [w \in Workers |-> NoLocal]
    /\ result = [w \in Workers |-> {}]
    /\ shielded = [w \in Workers |-> FALSE]
    /\ fn_calls = [w \in Workers |-> 0]
    /\ run_ret = [w \in Workers |-> FALSE]
    /\ faulted = [w \in Workers |-> FALSE]

\* the process is launched with CCLS_CRASH_RECOVERY set
SetEnv ==
    /\ proc = "running" /\ env = EnvUnset
    /\ \A w \in Workers : pc[w] = "idle"
    /\ env' \in EnvValues
    /\ UNCHANGED <<proc, marked, pc, root, pos, local, result, shielded, fn_calls,
                   run_ret, faulted, not_parse>>

\* ClangIndexer::Index -> Parse(file_consumer_shared, file, ...): the adapter
\* is installed and RunSafely starts the closure
IndexStart ==
    \E w \in Workers, r \in Roots :
        /\ proc = "running" /\ pc[w] = "idle"
        /\ pc' = [pc EXCEPT ![w] = "parsing"]
        /\ root' = [root EXCEPT ![w] = r]
        /\ shielded' = [shielded EXCEPT ![w] = RunSafely(env, FALSE).crc]
        /\ fn_calls' = [fn_calls EXCEPT ![w] = @ + 1]
        /\ UNCHANGED <<env, proc, marked, pos, local, result, run_ret, faulted, not_parse>>

\* the next event of the stream: the adapter attributes it to its file, which
\* is the root (always claimed), a file already in the working set, or a
\* header the arbiter is asked for
OnEvent ==
    \E w \in Workers :
        /\ proc = "running" /\ pc[w] = "parsing" /\ pos[w] < Len(Stream(root[w]))
        /\ LET file == Stream(root[w])[pos[w] + 1]
               m == Mark(marked, file)
           IN  IF file \in local[w].owned \cup local[w].dropped
               THEN UNCHANGED <<marked, local>>
               ELSE IF file = root[w]
               THEN /\ local' = [local EXCEPT ![w].owned = @ \cup {file}]
                    /\ UNCHANGED marked
               ELSE /\ marked' = m.marked
                    /\ local' = IF m.ok THEN [local EXCEPT ![w].owned = @ \cup {file}]
                                ELSE [local EXCEPT ![w].dropped = @ \cup {file}]
        /\ pos' = [pos EXCEPT ![w] = @ + 1]
        /\ UNCHANGED <<env, proc, pc, root, result, shielded, fn_calls, run_ret,
                       faulted, not_parse>>

\* a fatal fault in the frontend, at any point of the parse: RunSafely returns
\* false and Parse returns, or, with the shield off, the process dies
OnFault ==
    \E w \in Workers :
        /\ proc = "running" /\ pc[w] = "parsing"
        /\ faulted' = [faulted EXCEPT ![w] = TRUE]
        /\ LET r == RunSafely(env, TRUE)
           IN  IF r.returns
               THEN /\ pc' = [pc EXCEPT ![w] = "done"]
                    /\ run_ret' = [run_ret EXCEPT ![w] = r.ret]
                    /\ result' = [result EXCEPT ![w] = ParseResult(r.ret, local[w])]
                    /\ UNCHANGED proc
               ELSE /\ proc' = "crashed"
                    /\ UNCHANGED <<pc, run_ret, result>>
        /\ UNCHANGED <<env, marked, root, pos, local, shielded, fn_calls, not_parse>>

\* the closure returns after the last event: RunSafely returns, Parse harvests
\* the owned IndexFiles
ParseReturn ==
    \E w \in Workers :
        /\ proc = "running" /\ pc[w] = "parsing" /\ pos[w] = Len(Stream(root[w]))
        /\ LET r == RunSafely(env, FALSE)
           IN  /\ pc' = [pc EXCEPT ![w] = "done"]
               /\ run_ret' = [run_ret EXCEPT ![w] = r.ret]
               /\ result' = [result EXCEPT ![w] = ParseResult(r.ret, local[w])]
        /\ UNCHANGED <<env, proc, marked, root, pos, local, shielded, fn_calls,
                       faulted, not_parse>>

ParseNext == SetEnv \/ IndexStart \/ OnEvent \/ OnFault \/ ParseReturn

StreamFiles(r) == {Stream(r)[i] : i \in 1..Len(Stream(r))}

\* C1: in every interleaving of the workers' mark(path) calls, mark returns
\* true to exactly the first caller for a path and false to every later one,
\* a parse that received false does not return an IndexFile for that path, and
\* each header path is in at most one of the returned result vectors.
C1_HeaderAtMostOnce ==
    \A h \in Headers :
        /\ Cardinality({w \in Workers : h \in result[w]}) <= 1
        /\ Cardinality({w \in Workers : h \in local[w].owned}) =
                (IF h \in marked THEN 1 ELSE 0)
        /\ \A w \in Workers :
            /\ h \in local[w].dropped => h \in marked /\ h \notin result[w]
            /\ h \in result[w] => h \in local[w].owned

\* all workers have returned; a header was claimed by one and refused to another
C1_Witness ==
    /\ \A w \in Workers : pc[w] = "done" /\ result[w] # {}
    /\ \E h \in Headers, v \in Workers, w \in Workers :
        h \in result[v] /\ h \in local[w].dropped /\ root[v] # root[w]
    /\ \E w \in Workers : Headers \subseteq local[w].dropped

\* two workers, and no other, parse a.cc and b.cc and both have returned
TwoParsesReturned(x, y) ==
    /\ x # y /\ root[x] = "a.cc" /\ root[y] = "b.cc"
    /\ pc[x] = "done" /\ pc[y] = "done"
    /\ \A w \in Workers \ {x, y} : pc[w] = "idle"

ExactlyOneHasUtil(x, y) ==
    /\ ("util.h" \in result[x]) # ("util.h" \in result[y])
    /\ "a.cc" \in result[x] /\ "b.cc" \in result[y]

C4_EmptyOnFailure ==
    \A w \in Workers : pc[w] = "done" =>
        /\ ~run_ret[w] => result[w] = {}
        /\ faulted[w] => result[w] = {}
        /\ result[w] # {} =>
            /\ pos[w] = Len(Stream(root[w]))
            /\ StreamFiles(root[w]) = local[w].owned \cup local[w].dropped
            /\ result[w] = local[w].owned
            /\ root[w] \in result[w]

\* a fault after the root file and a header were claimed: nothing is returned
C4_Witness ==
    \E w \in Workers :
        /\ pc[w] = "done" /\ faulted[w] /\ ~run_ret[w]
        /\ root[w] \in local[w].owned /\ local[w].owned \cap Headers # {}
        /\ pos[w] < Len(Stream(root[w]))
        /\ result[w] = {}

EnvIsZero == env.set /\ env.val = <<48>>

\* C5: RunSafely invokes the closure exactly once; if CCLS_CRASH_RECOVERY is
\* exactly "0" the closure runs outside the crash-recovery context and
\* RunSafely returns true when the closure returns; for every other value and
\* when the variable is unset the closure runs inside the context and RunSafely
\* returns the context's result, false when a fatal fault was caught.
C5_RunSafelyContract ==
    /\ \A w \in Workers :
        /\ fn_calls[w] = (IF pc[w] = "idle" THEN 0 ELSE 1)
        /\ pc[w] # "idle" => (shielded[w] <=> ~EnvIsZero)
        /\ pc[w] = "done" =>
            /\ ~shielded[w] => run_ret[w] /\ ~faulted[w]
            /\ shielded[w] => (run_ret[w] <=> ~faulted[w])
        /\ faulted[w] /\ shielded[w] => pc[w] = "done"
    /\ proc = "crashed" <=> \E w \in Workers : faulted[w] /\ ~shielded[w]

\* with the variable set to "0" a closure ran unshielded and RunSafely returned true
C5_Witness ==
    /\ EnvIsZero
    /\ \E w \in Workers : pc[w] = "done" /\ ~shielded[w] /\ run_ret[w] /\ fn_calls[w] = 1

(***************************************************************************)
(* Specifications                                                          *)
(***************************************************************************)
Init ==
    /\ IdInit
    /\ RefInit
    /\ NameInit
    /\ ReflInit
    /\ IxInit
    /\ ParseInit

\* the Id algebra
SpecId == Init /\ [][IdNext]_vars

\* the declarations and uses of one entity
SpecRef == Init /\ [][RefNext]_vars

\* Name() of one record
SpecName == Init /\ [][NameNext]_vars

\* writing and reading back one Def record
SpecReflect == Init /\ [][ReflNext]_vars

\* To*Id calls on one IndexFile
SpecCache == Init /\ [][IxCacheNext]_vars

\* declaration events with bases on one IndexFile
SpecEdges == Init /\ [][IxEdgesNext]_vars

\* the workers parsing translation units against one arbiter
Spec == Init /\ [][ParseNext]_vars

=============================================================================
